---- MODULE Spec2Model ----
(***************************************************************************)
(* TriviaVerse (src/TriviaVerse.py): a Streamlit quiz that builds          *)
(* multiple-choice questions from Wikipedia summaries.                     *)
(*                                                                         *)
(* The model has two layers.                                               *)
(*  - The Builder: get_random_wikipedia_summary (with its st.cache_data    *)
(*    wrapper) and generate_mcq, one action per outbound network call.     *)
(*    The network (search, summary, random-article endpoints) is the       *)
(*    environment: every call may raise or answer with any response over   *)
(*    the bounded corpus.                                                  *)
(*  - The round controller: the Streamlit script body, one action per      *)
(*    user event (a widget change or button click, each followed by the    *)
(*    script rerun it triggers) and one per iteration of the question      *)
(*    generation loop.                                                     *)
(* Titles and summaries are strings; Python lists are sequences; an        *)
(* optional value is <<>> (None) or <<v>>.                                 *)
(***************************************************************************)
EXTENDS Integers, Sequences, FiniteSets, TLC

VARIABLES
    \* st.session_state (lines 219-228)
    score, question_number, questions_asked, current_question_data, quiz_started,
    \* sidebar widgets (lines 208, 213)
    category, num_questions,
    \* st.cache_data store of get_random_wikipedia_summary and the wall clock
    cache, now,
    \* position of the running script, the loop counter, what the page shows
    pc, attempts, shown,
    \* locals of get_random_wikipedia_summary
    page_titles, valid_titles, title, alts, tries, exc, ret,
    \* locals of generate_mcq, and the value it returns to the loop
    correct_answer, summary, gather_exc, wrong_answers_pool, wrong_answers,
    new_question_data

session == <<score, question_number, questions_asked, current_question_data, quiz_started>>
widgets == <<category, num_questions>>
env == <<cache, now>>
fetch_locals == <<page_titles, valid_titles, title, alts, tries, exc, ret>>
mcq_locals == <<correct_answer, summary, gather_exc, wrong_answers_pool, wrong_answers>>
vars == <<score, question_number, questions_asked, current_question_data, quiz_started,
          category, num_questions, cache, now, pc, attempts, shown,
          page_titles, valid_titles, title, alts, tries, exc, ret,
          correct_answer, summary, gather_exc, wrong_answers_pool, wrong_answers,
          new_question_data>>

----------------------------------------------------------------------------
(* Program constants *)

\* ttl of st.cache_data, in seconds
CacheTTL == 3600
\* len(title) > 5
MinTitleLen == 5
\* min(len(e.options), 5)
MaxAlternatives == 5
\* wikipedia.random(pages=5) in the try block
RelatedRandomPages == 5
\* wikipedia.random(pages=8) in the except block
FallbackRandomPages == 8
\* wikipedia.random(pages=5) of the top-up
TopUpRandomPages == 5
\* the 3 of len(wrong_answers) < 3, 3 - len(wrong_answers), min(3, ...)
NeededDecoys == 3
\* max_attempts = 5
max_attempts == 5
\* st.number_input(..., min_value=3, ...)
MinQuestions == 3

(* Bounds of the model *)

\* largest value of the "Number of Questions" input explored (20 in the code)
MaxQuestions == 4
\* seconds that pass in one clock step, and how many steps are explored
TickStep == 2400
MaxTicks == 2
\* longest list of alternatives a DisambiguationError carries
MaxOptions == 6

\* Python's None for a title or a summary
None == "<None>"
Marker == "(disambiguation)"

\* st.selectbox("Select Category", [...]): two of the seven categories
Categories == {"Science", "History"}

\* The titles the mocked encyclopedia knows, in a fixed order: a title of
\* exactly 5 characters, two ordinary titles and a disambiguation-marked one.
CorpusSeq == <<"Quark", "Photon", "Neutron", "Mercury (disambiguation)">>
Corpus == {CorpusSeq[i] : i \in 1..Len(CorpusSeq)}

Range(s) == {s[i] : i \in 1..Len(s)}
Idx(t) == CHOOSE i \in 1..Len(CorpusSeq) : CorpusSeq[i] = t
\* a list holding the elements of S once each (list(set(...)))
SetToSeq(S) == SelectSeq(CorpusSeq, LAMBDA t : t \in S)

\* sub in text (Python's substring test)
Contains(text, sub) ==
    \E i \in 1..(Len(text) - Len(sub) + 1) : SubSeq(text, i, i + Len(sub) - 1) = sub

\* the text wikipedia.summary returns for a title
SummaryOf(t) == "Summary of " \o t

----------------------------------------------------------------------------
(* The environment: responses of the three endpoints *)

RECURSIVE SortedSeqs(_)
\* lists of n titles, one representative per multiset (every consumer of such a
\* list, set() and random.sample, is insensitive to its order)
SortedSeqs(n) ==
    IF n = 0 THEN {<<>>}
    ELSE UNION {{Append(s, t) : t \in {u \in Corpus : s = <<>> \/ Idx(s[Len(s)]) <= Idx(u)}} :
                s \in SortedSeqs(n - 1)}

\* wikipedia.search(...): a list of distinct titles ranked by relevance
SearchResponses == {SetToSeq(S) : S \in SUBSET Corpus}
\* wikipedia.random(pages=n): n titles drawn from the corpus
Random5 == SortedSeqs(RelatedRandomPages)
Random8 == SortedSeqs(FallbackRandomPages)
RandomTopUp == SortedSeqs(TopUpRandomPages)
\* DisambiguationError.options
OptionLists == UNION {SortedSeqs(n) : n \in 0..MaxOptions}
\* wikipedia.summary(t, sentences=3) when it returns: the text, or an empty text
SummaryTexts(t) == {SummaryOf(t), ""}

\* seq rearranged into corpus order
Sorted(seq) ==
    LET RECURSIVE From(_)
        From(i) ==
            IF i > Len(CorpusSeq) THEN <<>>
            ELSE SelectSeq(seq, LAMBDA t : t = CorpusSeq[i]) \o From(i + 1)
    IN From(1)

\* random.sample(list, k): k elements at distinct positions. The order of the
\* sample is immaterial wherever it is used (it is sampled or shuffled again),
\* so one representative per selection of positions is kept.
Samples(list, k) ==
    {[i \in 1..k |-> list[f[i]]] :
        f \in {g \in [1..k -> 1..Len(list)] : \A a, b \in 1..k : a < b => g[a] < g[b]}}

\* random.shuffle(list): some permutation of the list. The program never reads
\* an option by its position, so the permutations are represented by one.
Shuffled(list) == Sorted(list)

\* list with the element at position i removed
RemoveAt(list, i) == SubSeq(list, 1, i - 1) \o SubSeq(list, i + 1, Len(list))

----------------------------------------------------------------------------
(* Pure parts of the Builder *)

\* (None, None)
NotFound == [title |-> None, summary |-> None]

\* faulty variant: the length test left out
IsCandidate_NoLength(t) == ~Contains(t, Marker)

\* "(disambiguation)" not in title and len(title) > 5
IsCandidate(t) == ~Contains(t, Marker) /\ Len(t) > MinTitleLen

\* valid_titles = [title for title in page_titles if ...]
ValidTitles(pt) == SelectSeq(pt, IsCandidate)

\* [res for res in search_results if res != correct_answer and "(disambiguation)" not in res]
RelatedDecoys(search_results, correct) ==
    SelectSeq(search_results, LAMBDA res : res # correct /\ ~Contains(res, Marker))

\* list(set([ans for ans in wrong_answers_pool if ans != correct_answer]))
UniqueWrong(pool, correct) == SetToSeq({ans \in Range(pool) : ans # correct})

\* the dict generate_mcq returns
Question(text, options, answer) ==
    [question |-> "What Wikipedia article is this summary from? " \o text,
     options |-> options,
     answer |-> answer]

\* "if not summary": None and the empty string are falsy
Falsy(text) == text = None \/ text = ""

Min(a, b) == IF a <= b THEN a ELSE b

----------------------------------------------------------------------------
(* st.cache_data(ttl=3600) around get_random_wikipedia_summary *)

NoCache == [c \in Categories |-> <<>>]

\* an entry is served while it is younger than the ttl
CacheHit(c) == cache[c] # <<>> /\ now < cache[c][1].stored_at + CacheTTL

\* the wrapper stores what the function returned, keyed by its argument
CacheStore(c, value) == [cache EXCEPT ![c] = <<[value |-> value, stored_at |-> now]>>]

\* entries older than the ttl are dropped
Expire(store, time) ==
    [c \in Categories |->
        IF store[c] # <<>> /\ time < store[c][1].stored_at + CacheTTL THEN store[c] ELSE <<>>]

----------------------------------------------------------------------------
(* get_random_wikipedia_summary(category), lines 11-42 *)

FetchLocalsInit ==
    /\ page_titles = <<>> /\ valid_titles = <<>> /\ title = None
    /\ alts = <<>> /\ tries = 0 /\ exc = "none" /\ ret = NotFound

ResetFetchLocals ==
    /\ page_titles' = <<>> /\ valid_titles' = <<>> /\ title' = None
    /\ alts' = <<>> /\ tries' = 0 /\ exc' = "none" /\ ret' = NotFound

McqLocalsInit ==
    /\ correct_answer = None /\ summary = None /\ gather_exc = "none"
    /\ wrong_answers_pool = <<>> /\ wrong_answers = <<>>

ResetMcqLocals ==
    /\ correct_answer' = None /\ summary' = None /\ gather_exc' = "none"
    /\ wrong_answers_pool' = <<>> /\ wrong_answers' = <<>>

\* generate_mcq lines 64-68, given what the fetcher returned
McqUnpack(r) ==
    IF Falsy(r.summary)
    THEN /\ new_question_data' = <<>>
         /\ pc' = "returned"
         /\ UNCHANGED <<correct_answer, summary>>
    ELSE /\ correct_answer' = r.title
         /\ summary' = r.summary
         /\ pc' = "m_search"
         /\ UNCHANGED new_question_data

\* the call is answered from the cache: the function body does not run
FetchCached ==
    /\ pc = "fetch"
    /\ CacheHit(category)
    /\ McqUnpack(cache[category][1].value)
    /\ UNCHANGED <<session, widgets, env, attempts, shown, fetch_locals,
                   gather_exc, wrong_answers_pool, wrong_answers>>

\* lines 15-27: the search, the filter, the choice of a title
FetchSearch ==
    /\ pc = "fetch"
    /\ ~CacheHit(category)
    /\ \/ /\ exc' = "search"
          /\ ret' = NotFound
          /\ pc' = "f_return"
          /\ UNCHANGED <<page_titles, valid_titles, title>>
       \/ \E pt \in SearchResponses :
            /\ page_titles' = pt
            /\ valid_titles' = IF pt = <<>> THEN <<>> ELSE ValidTitles(pt)
            /\ IF valid_titles' = <<>>
               THEN /\ ret' = NotFound
                    /\ pc' = "f_return"
                    /\ title' = title
               ELSE /\ \E t \in Range(valid_titles') : title' = t
                    /\ pc' = "f_summary"
                    /\ ret' = ret
            /\ exc' = exc
    /\ UNCHANGED <<session, widgets, env, attempts, shown, alts, tries,
                   mcq_locals, new_question_data>>

\* lines 28-32 and 40-42: the summary of the chosen title
FetchSummary ==
    /\ pc = "f_summary"
    /\ \/ \E text \in SummaryTexts(title) :
            /\ ret' = [title |-> title, summary |-> text]
            /\ pc' = "f_return"
            /\ UNCHANGED <<alts, exc>>
       \/ /\ exc' = "summary"
          /\ ret' = NotFound
          /\ pc' = "f_return"
          /\ alts' = alts
       \/ \E options \in OptionLists :
            /\ exc' = "disambiguation"
            /\ IF options = <<>>
               THEN ret' = NotFound /\ pc' = "f_return" /\ alts' = alts
               ELSE alts' = options /\ pc' = "f_recover" /\ ret' = ret
    \* the search results and the chosen title are not read again
    /\ page_titles' = <<>> /\ valid_titles' = <<>> /\ title' = None
    /\ UNCHANGED <<session, widgets, env, attempts, shown, tries, mcq_locals,
                   new_question_data>>

\* faulty variant: every alternative is tried, whatever their number
MoreAlternatives_NoCap(a, n) == a # <<>>

\* for option in random.sample(e.options, min(len(e.options), 5)): the loop runs
\* while fewer than min(len, 5) options were tried
MoreAlternatives(a, n) == n < MaxAlternatives /\ a # <<>>

\* lines 33-39: one alternative drawn without replacement and tried, or the
\* loop's end. alts are the options not drawn yet.
FetchRecover ==
    /\ pc = "f_recover"
    /\ IF MoreAlternatives(alts, tries)
       THEN \E i \in 1..Len(alts) :
              /\ tries' = tries + 1
              /\ \/ \E text \in SummaryTexts(alts[i]) :
                      /\ ret' = [title |-> alts[i], summary |-> text]
                      /\ pc' = "f_return"
                      /\ alts' = alts
                 \/ /\ alts' = RemoveAt(alts, i)
                    /\ UNCHANGED <<ret, pc>>
       ELSE /\ ret' = NotFound
            /\ pc' = "f_return"
            /\ UNCHANGED <<alts, tries>>
    /\ UNCHANGED <<session, widgets, env, attempts, shown, page_titles, valid_titles,
                   title, exc, mcq_locals, new_question_data>>

\* the function returns: the wrapper stores the value, generate_mcq unpacks it
FetchReturn ==
    /\ pc = "f_return"
    /\ cache' = CacheStore(category, ret)
    /\ McqUnpack(ret)
    /\ ResetFetchLocals
    /\ UNCHANGED <<session, widgets, now, attempts, shown,
                   gather_exc, wrong_answers_pool, wrong_answers>>

----------------------------------------------------------------------------
(* generate_mcq(category), lines 63-103 *)

\* line 74-78: the related search of the try block
McqSearch ==
    /\ pc = "m_search"
    /\ \/ /\ gather_exc' = "search"
          /\ pc' = "m_fallback"
          /\ UNCHANGED wrong_answers_pool
       \/ \E search_results \in SearchResponses :
            /\ wrong_answers_pool' =
                   wrong_answers_pool \o RelatedDecoys(search_results, correct_answer)
            /\ pc' = "m_random"
            /\ UNCHANGED gather_exc
    /\ UNCHANGED <<session, widgets, env, attempts, shown, fetch_locals,
                   correct_answer, summary, wrong_answers, new_question_data>>

\* line 81: the random pages of the try block
McqRandom ==
    /\ pc = "m_random"
    /\ \/ /\ gather_exc' = "random"
          /\ pc' = "m_fallback"
          /\ UNCHANGED wrong_answers_pool
       \/ \E pages \in Random5 :
            /\ wrong_answers_pool' = wrong_answers_pool \o pages
            /\ pc' = "m_dedup"
            /\ UNCHANGED gather_exc
    /\ UNCHANGED <<session, widgets, env, attempts, shown, fetch_locals,
                   correct_answer, summary, wrong_answers, new_question_data>>

\* faulty variant: the fallback replaces the pool
FallbackPool_Discard(pool, pages) == pages

\* wrong_answers_pool.extend(wikipedia.random(pages=8)): the pool keeps what the
\* try block had put in it
FallbackPool(pool, pages) == pool \o pages

\* lines 83-85: the except block; an error of its own call is not caught
McqFallback ==
    /\ pc = "m_fallback"
    /\ \/ /\ pc' = "raised"
          /\ ResetMcqLocals
       \/ \E pages \in Random8 :
            /\ wrong_answers_pool' = FallbackPool(wrong_answers_pool, pages)
            /\ pc' = "m_dedup"
            /\ UNCHANGED <<correct_answer, summary, gather_exc, wrong_answers>>
    /\ UNCHANGED <<session, widgets, env, attempts, shown, fetch_locals, new_question_data>>

\* lines 88-90
McqDedup ==
    /\ pc = "m_dedup"
    /\ wrong_answers' = UniqueWrong(wrong_answers_pool, correct_answer)
    /\ pc' = IF Len(wrong_answers') < NeededDecoys THEN "m_topup" ELSE "m_pick"
    /\ wrong_answers_pool' = <<>>
    /\ UNCHANGED <<session, widgets, env, attempts, shown, fetch_locals,
                   correct_answer, summary, gather_exc, new_question_data>>

\* line 92: the top-up; an error of its call is not caught
McqTopUp ==
    /\ pc = "m_topup"
    /\ \/ /\ pc' = "raised"
          /\ ResetMcqLocals
       \/ \E pages \in RandomTopUp :
          \E extra \in Samples(pages, NeededDecoys - Len(wrong_answers)) :
            /\ wrong_answers' = wrong_answers \o extra
            /\ pc' = "m_pick"
            /\ UNCHANGED <<correct_answer, summary, gather_exc, wrong_answers_pool>>
    /\ UNCHANGED <<session, widgets, env, attempts, shown, fetch_locals, new_question_data>>

\* lines 94-103: the three decoys, the shuffle, the returned dict
McqPick ==
    /\ pc = "m_pick"
    /\ \E picked \in Samples(wrong_answers, Min(NeededDecoys, Len(wrong_answers))) :
            new_question_data' =
                <<Question(summary, Shuffled(picked \o <<correct_answer>>), correct_answer)>>
    /\ pc' = "returned"
    /\ ResetMcqLocals
    /\ UNCHANGED <<session, widgets, env, attempts, shown, fetch_locals>>

Builder ==
    \/ FetchCached \/ FetchSearch \/ FetchSummary \/ FetchRecover \/ FetchReturn
    \/ McqSearch \/ McqRandom \/ McqFallback \/ McqDedup \/ McqTopUp \/ McqPick

----------------------------------------------------------------------------
(* Time *)

\* TickStep seconds pass while the page waits for the user
Tick ==
    /\ pc \in {"idle", "returned", "raised"}
    /\ now < MaxTicks * TickStep
    /\ now' = now + TickStep
    /\ cache' = Expire(cache, now')
    /\ UNCHANGED <<session, widgets, pc, attempts, shown, fetch_locals, mcq_locals,
                   new_question_data>>

----------------------------------------------------------------------------
(* The state after the first script run (lines 219-232) *)

Init ==
    /\ score = 0
    /\ question_number = 1
    /\ questions_asked = <<>>
    /\ current_question_data = <<>>
    /\ quiz_started = FALSE
    /\ category \in Categories
    /\ num_questions \in MinQuestions..MaxQuestions
    /\ cache = NoCache
    /\ now = 0
    /\ pc = "idle"
    /\ attempts = 0
    /\ shown = "start"
    /\ FetchLocalsInit
    /\ McqLocalsInit
    /\ new_question_data = <<>>

----------------------------------------------------------------------------
(* The Builder on its own: generate_mcq(category) called directly, again and
   again, for the selected category *)

CallBuilder ==
    /\ pc \in {"idle", "returned", "raised"}
    /\ pc' = "fetch"
    /\ new_question_data' = <<>>
    /\ UNCHANGED <<session, widgets, env, attempts, shown, fetch_locals, mcq_locals>>

NextBuilder == CallBuilder \/ Tick \/ Builder

SpecBuilder == Init /\ [][NextBuilder]_vars

----------------------------------------------------------------------------
(* The Builder as one step: what a call of generate_mcq can return, computed    *)
(* from the same parts as the step-by-step actions above. The round controller  *)
(* below calls the Builder through these.                                       *)

RECURSIVE RecoverOutcomes(_, _)
\* lines 33-39: what the loop over the sampled alternatives can return
RecoverOutcomes(a, n) ==
    IF MoreAlternatives(a, n)
    THEN UNION {{[title |-> a[i], summary |-> text] : text \in SummaryTexts(a[i])}
                    \cup RecoverOutcomes(RemoveAt(a, i), n + 1) : i \in 1..Len(a)}
    ELSE {NotFound}

\* lines 30-39, for every list of alternatives the error may carry
RecoveryResults ==
    {NotFound} \cup UNION {RecoverOutcomes(options, 0) : options \in OptionLists \ {<<>>}}

\* lines 28-42, for the chosen title t
SummaryOutcomes(t) ==
    {[title |-> t, summary |-> text] : text \in SummaryTexts(t)}
        \cup {NotFound} \cup RecoveryResults

\* lines 15-42: everything the function body can return
FetchOutcomes ==
    {NotFound} \cup
    UNION {LET valid == IF pt = <<>> THEN <<>> ELSE ValidTitles(pt)
           IN  IF valid = <<>> THEN {NotFound}
               ELSE UNION {SummaryOutcomes(t) : t \in Range(valid)}
           : pt \in SearchResponses}

\* lines 71-85: the pools the gathering can end with, when it does not raise
GatherPools(correct) ==
    {RelatedDecoys(sr, correct) \o pages : sr \in SearchResponses, pages \in Random5}
        \cup {FallbackPool(<<>>, pages) : pages \in Random8}
        \cup {FallbackPool(RelatedDecoys(sr, correct), pages) :
                  sr \in SearchResponses, pages \in Random8}

\* lines 88-92: the wrong answers after the top-up, when it does not raise
DecoyLists(correct) ==
    UNION {LET w == UniqueWrong(pool, correct)
           IN  IF Len(w) < NeededDecoys
               THEN {w \o extra : extra \in UNION {Samples(pages, NeededDecoys - Len(w)) :
                                                   pages \in RandomTopUp}}
               ELSE {w}
           : pool \in GatherPools(correct)}

\* lines 94-97: the option lists of the questions whose answer is c
McqOptions ==
    [c \in Corpus |->
        UNION {{Shuffled(picked \o <<c>>) : picked \in Samples(w, Min(NeededDecoys, Len(w)))}
               : w \in DecoyLists(c)}]

\* what generate_mcq does with the fetcher's value r: "none" (return None),
\* "raised" (an uncaught error of lines 85 or 92) or a question
McqOutcomes(r) ==
    IF Falsy(r.summary)
    THEN {[kind |-> "none", q |-> <<>>]}
    ELSE {[kind |-> "raised", q |-> <<>>]} \cup
         {[kind |-> "question", q |-> <<Question(r.summary, options, r.title)>>] :
             options \in McqOptions[r.title]}

----------------------------------------------------------------------------
(* The round controller: the script body, lines 218-315 *)

\* the entry questions_asked.append(new_question_data) adds. The list is only
\* ever read through q["answer"] (line 254), which is what an entry keeps.
Asked(q) == [answer |-> q.answer]

\* faulty variant: no uniqueness test
IsNewAnswer_Always(q, asked) == TRUE

\* new_question_data["answer"] not in [q["answer"] for q in questions_asked]
IsNewAnswer(q, asked) == \A i \in 1..Len(asked) : asked[i].answer # q.answer

\* faulty variant: one iteration too many
LoopContinues_OneMore(n) == n <= max_attempts

\* while attempts < max_attempts
LoopContinues(n) == n < max_attempts

\* One run of the script from the top, with the session state and the widgets as
\* the event left them: which branch renders (lines 231, 246, 247, 293).
RunScript ==
    IF ~quiz_started'
    THEN pc' = "idle" /\ shown' = "start" /\ attempts' = 0
    ELSE IF question_number' <= num_questions'
         THEN IF current_question_data' = <<>>
              THEN pc' = "loop" /\ shown' = "spinner" /\ attempts' = 0
              ELSE pc' = "idle" /\ shown' = "question" /\ attempts' = 0
         ELSE pc' = "idle" /\ shown' = "completed" /\ attempts' = 0

builder_vars == <<page_titles, valid_titles, title, alts, tries, exc, ret,
                  correct_answer, summary, gather_exc, wrong_answers_pool, wrong_answers,
                  new_question_data>>

\* lines 233-239: the Start Quiz button
StartQuiz ==
    /\ pc = "idle" /\ shown = "start"
    /\ quiz_started' = TRUE
    /\ score' = 0
    /\ question_number' = 1
    /\ questions_asked' = <<>>
    /\ current_question_data' = <<>>
    /\ UNCHANGED <<widgets, env, builder_vars>>
    /\ RunScript

\* lines 270-289: an option chosen and Submit Answer clicked
SubmitAnswer ==
    /\ pc = "idle" /\ shown = "question"
    /\ \E choice \in Range(current_question_data[1].options) :
         score' = IF choice = current_question_data[1].answer THEN score + 1 ELSE score
    /\ question_number' = question_number + 1
    /\ current_question_data' = <<>>
    /\ UNCHANGED <<questions_asked, quiz_started, widgets, env, builder_vars>>
    /\ RunScript

\* lines 307-313: the Play Again button of the end screen
PlayAgain ==
    /\ pc = "idle" /\ shown = "completed"
    /\ quiz_started' = FALSE
    /\ score' = 0
    /\ question_number' = 1
    /\ questions_asked' = <<>>
    /\ current_question_data' = <<>>
    /\ UNCHANGED <<widgets, env, builder_vars>>
    /\ RunScript

\* line 208: another category selected; the script reruns
SelectCategory ==
    /\ pc = "idle"
    /\ \E c \in Categories \ {category} : category' = c
    /\ UNCHANGED <<session, num_questions, env, builder_vars>>
    /\ RunScript

\* line 213: another number of questions entered; the script reruns
SetNumQuestions ==
    /\ pc = "idle"
    /\ \E n \in (MinQuestions..MaxQuestions) \ {num_questions} : num_questions' = n
    /\ UNCHANGED <<session, category, env, builder_vars>>
    /\ RunScript

\* the user reruns the page with nothing changed
RerunPage ==
    /\ pc = "idle"
    /\ UNCHANGED <<session, widgets, env, builder_vars>>
    /\ RunScript

\* lines 252-258: one iteration of the generation loop, the Builder call included
GenerateAttempt ==
    /\ pc = "loop"
    /\ LoopContinues(attempts)
    /\ \E r \in IF CacheHit(category) THEN {cache[category][1].value} ELSE FetchOutcomes :
         /\ cache' = IF CacheHit(category) THEN cache ELSE CacheStore(category, r)
         /\ \E out \in McqOutcomes(r) :
              IF out.kind = "raised"
              THEN \* the error ends the script run; the session state stays
                   /\ pc' = "idle" /\ shown' = "exception" /\ attempts' = 0
                   /\ UNCHANGED <<current_question_data, questions_asked>>
              ELSE IF out.kind = "question" /\ IsNewAnswer(out.q[1], questions_asked)
              THEN \* accepted: break, then the question renders (lines 264-272)
                   /\ current_question_data' = out.q
                   /\ questions_asked' = Append(questions_asked, Asked(out.q[1]))
                   /\ pc' = "idle" /\ shown' = "question" /\ attempts' = 0
              ELSE /\ attempts' = attempts + 1
                   /\ UNCHANGED <<current_question_data, questions_asked, pc, shown>>
    /\ UNCHANGED <<score, question_number, quiz_started, widgets, now, builder_vars>>

\* the loop ends without a break. Lines 259-262: the warning and st.stop();
\* were attempts not max_attempts, lines 264-292 would find no question and
\* end the quiz with their own warning.
LoopExhausted ==
    /\ pc = "loop"
    /\ ~LoopContinues(attempts)
    /\ quiz_started' = FALSE
    /\ shown' = IF attempts = max_attempts THEN "unfillable" ELSE "no_question"
    /\ pc' = "idle"
    /\ attempts' = 0
    /\ UNCHANGED <<score, question_number, questions_asked, current_question_data,
                   widgets, env, builder_vars>>

Next ==
    \/ StartQuiz \/ SubmitAnswer \/ PlayAgain
    \/ SelectCategory \/ SetNumQuestions \/ RerunPage
    \/ GenerateAttempt \/ LoopExhausted
    \/ Tick

Spec == Init /\ [][Next]_vars

----------------------------------------------------------------------------
(* The two models of the Builder agree: what the step-by-step actions return   *)
(* is among the outcomes the round controller draws from.                      *)

StepsWithinOutcomes ==
    /\ pc = "f_return" => ret \in FetchOutcomes
    /\ pc = "returned" /\ new_question_data # <<>> =>
           new_question_data[1].options \in McqOptions[new_question_data[1].answer]

----------------------------------------------------------------------------
(* Claims *)

\* generate_mcq has returned a question
ReturnedQuestion == pc = "returned" /\ new_question_data # <<>>

\* C1: every Question generate_mcq returns has an options list of exactly 4
\* pairwise-distinct strings that holds the correct answer exactly once, also
\* when the top-up filled the decoys.
C1_OptionsWellFormed ==
    ReturnedQuestion =>
        LET q == new_question_data[1]
        IN  /\ Len(q.options) = 4
            /\ \A i, j \in 1..Len(q.options) : i # j => q.options[i] # q.options[j]
            /\ Cardinality({i \in 1..Len(q.options) : q.options[i] = q.answer}) = 1

\* C2: generate_mcq ends by returning a Question or None; no failure of a
\* network call, the fallback's and the top-up's included, leaves it as an
\* uncaught error.
C2_TwoOutcomes == pc # "raised"

C4_DistinctAnswers ==
    /\ \A i, j \in 1..Len(questions_asked) :
           i # j => questions_asked[i].answer # questions_asked[j].answer
    /\ current_question_data # <<>> =>
           /\ questions_asked # <<>>
           /\ questions_asked[Len(questions_asked)].answer = current_question_data[1].answer

\* C4 witness: in a round after the first, the Builder has just returned a
\* question whose answer was already used, and the loop went on to a rebuild
C4_Witness ==
    /\ pc = "loop" /\ attempts > 0
    /\ CacheHit(category)
    /\ ~Falsy(cache[category][1].value.summary)
    /\ \E i \in 1..Len(questions_asked) :
           questions_asked[i].answer = cache[category][1].value.title

\* C5: the correct answer of a returned Question never carries the
\* disambiguation marker, on the direct path and on the recovery path.
C5_NoMarkedAnswer ==
    ReturnedQuestion => ~Contains(new_question_data[1].answer, Marker)

\* C6: every call of the Fetcher draws afresh: it runs the search and picks a
\* candidate, it never hands back the value of an earlier call.
C6_FreshDraw == [][pc = "fetch" => pc' \in {"f_summary", "f_return"}]_vars

\* C7 as stated: after a retrieval error in the gathering attempt the pool
\* before deduplication is just the 8 titles of the fallback sample.
C7_OnlyFallback ==
    (pc = "m_dedup" /\ gather_exc # "none") =>
        Len(wrong_answers_pool) = 8 /\ wrong_answers_pool \in Random8

\* C7 amended: the fallback appends its 8 titles to what the try block had
\* gathered: nothing when the search raised, the kept related titles (none
\* marked, none the correct answer) when the random-pages call raised.
C7_FallbackAppends ==
    [][(pc = "m_fallback" /\ pc' = "m_dedup") =>
          /\ \E pages \in Random8 : wrong_answers_pool' = wrong_answers_pool \o pages
          /\ Len(wrong_answers_pool') = Len(wrong_answers_pool) + 8
          /\ gather_exc = "search" => wrong_answers_pool = <<>>
          /\ gather_exc = "random" =>
                 \A i \in 1..Len(wrong_answers_pool) :
                    /\ wrong_answers_pool[i] # correct_answer
                    /\ ~Contains(wrong_answers_pool[i], Marker)
      ]_vars

\* C7 witness: the random-pages call raised after the search had found related
\* titles, and the fallback has run
C7_Witness ==
    pc = "m_dedup" /\ gather_exc = "random" /\ Len(wrong_answers_pool) > 8

\* the filter of lines 20-23 has just run on a non-empty search result
FilterRan == pc = "f_summary" \/ (pc = "f_return" /\ page_titles # <<>>)

\* C8 as stated: a search result is discarded exactly when it carries the
\* marker or is shorter than 5 characters, and NotFound is returned only when
\* nothing is left.
C8_KeepsLengthFive ==
    FilterRan =>
        /\ valid_titles =
               SelectSeq(page_titles, LAMBDA t : ~Contains(t, Marker) /\ Len(t) >= 5)
        /\ pc = "f_return" => valid_titles = <<>>

\* C8 amended: a search result is discarded exactly when it carries the marker
\* or has at most 5 characters; the title is chosen among the others, and at
\* this step NotFound is returned exactly when none is left.
C8_DropsLengthFive ==
    FilterRan =>
        /\ valid_titles =
               SelectSeq(page_titles, LAMBDA t : ~Contains(t, Marker) /\ Len(t) >= 6)
        /\ pc = "f_return" <=> valid_titles = <<>>
        /\ pc = "f_return" => ret = NotFound
        /\ pc = "f_summary" => title \in Range(valid_titles)

\* C8 witness: a title of exactly 5 characters was among the search results
\* and a candidate was chosen
C8_Witness ==
    /\ pc = "f_summary"
    /\ \E i \in 1..Len(page_titles) :
           Len(page_titles[i]) = 5 /\ ~Contains(page_titles[i], Marker)

\* C9: on ambiguity at most 5 alternatives are tried one after another; a
\* successful fetch returns that alternative with its summary at once; NotFound
\* is returned when the tries are used up or no alternative is left or none
\* was reported; no error of the Fetcher reaches the caller.
C9_Recovery ==
    [][/\ tries' \in 0..5
       /\ pc = "f_recover" =>
              /\ pc' \in {"f_recover", "f_return"}
              /\ pc' = "f_recover" =>
                     /\ tries' = tries + 1
                     /\ Len(alts') = Len(alts) - 1
              /\ (pc' = "f_return" /\ ret' # NotFound) =>
                     /\ tries' = tries + 1
                     /\ ret'.title \in Range(alts)
                     /\ ret'.summary \in SummaryTexts(ret'.title)
              /\ (pc' = "f_return" /\ ret' = NotFound) =>
                     (tries = 5 \/ alts = <<>>) /\ tries' = tries
       /\ (pc = "f_summary" /\ exc' = "disambiguation") =>
              /\ pc' \in {"f_recover", "f_return"}
              /\ pc' = "f_return" => ret' = NotFound
              /\ pc' = "f_recover" => alts' # <<>> /\ tries' = 0
       /\ pc \in {"fetch", "f_summary", "f_recover", "f_return"} => pc' # "raised"
      ]_vars

\* C9 witness: five alternatives were tried, all failed, a sixth is left untried
C9_Witness == pc = "f_recover" /\ tries = 5 /\ alts # <<>>

====
